---- MODULE Spec2Model ----
(***************************************************************************)
(* Year planning for the SDG 15.4.2 sub indicators                         *)
(* (component/scripts/scripts.py).                                         *)
(*                                                                         *)
(* Spec        : get_sub_a_break_points followed by                        *)
(*               get_interpolation_years on its output.                    *)
(* SpecExtract : get_interpolation_years / remove_duplicated_years on      *)
(*               bracket lists of one to MaxBracket year dictionaries.     *)
(* SpecDedup   : remove_duplicated_years on lists of year dictionaries.    *)
(* SpecSubB    : get_b_years, get_reporting_years and get_sub_b_items.     *)
(* SpecParse, SpecParseDamaged : parse_result.                             *)
(* SpecToYearA : parse_to_year_a with interpolate_sub_a_data.              *)
(* SpecToYearB : parse_to_year.                                            *)
(*                                                                         *)
(* A Python dict is modelled as the sequence of its items in insertion     *)
(* order; a year dictionary {"asset": a, "year": y} is the record          *)
(* [year |-> y, asset |-> a].                                              *)
(***************************************************************************)
EXTENDS Integers, Sequences, FiniteSets, TLC

VARIABLES
    pc,                 \* position of the run: "start", then the name of the last step
    REPORT_INTERVALS,   \* param.REPORT_INTERVALS, ascending list of reporting years
    user_input_years,   \* values of the user input dict, in insertion order
    break_points,       \* dict returned by get_sub_a_break_points
    kind,               \* Python type of the years and period labels: "int" or "str"
    breaking_points,    \* dict handed to get_interpolation_years
    years_to_calculate, \* list returned by get_interpolation_years
    err,                \* exception raised by the last call, "none" if it returned
    shuffled,           \* breaking_points with its items in another order
    years_shuffled,     \* list returned by get_interpolation_years(shuffled)
    err_shuffled,       \* exception raised by that call
    member_order,       \* iteration order of each frozenset of year dictionaries built so far
    group_order,        \* iteration order of each set of frozensets built so far
    year_lists,         \* list of lists handed to remove_duplicated_years
    deduped,            \* list returned by remove_duplicated_years
    sub_b_years,        \* custom_list_b.v_model: the baseline and the extra report years
    b_years,            \* list returned by get_b_years
    sub_b_items,        \* items returned by get_sub_b_items
    sub_b_values,       \* values returned by get_sub_b_items
    result,             \* the nested groups handed to parse_result
    single,             \* the flag single of parse_result
    df,                 \* the rows of the dataframe parse_result returns
    results_a,          \* the results handed to parse_to_year_a
    reporting_years_a,  \* the break points handed to parse_to_year_a
    year_a,             \* the year asked of parse_to_year_a
    df_a,               \* the rows of the dataframe parse_to_year_a returns
    year1_a,            \* year1 handed to interpolate_sub_a_data
    year2_a,            \* year2 handed to interpolate_sub_a_data
    asked_a,            \* the years parse_to_year_a was called with, in order
    deep_a,             \* the largest number of nested interpolate_sub_a_data calls
    results_b,          \* the results handed to parse_to_year
    target_year,        \* the selector handed to parse_to_year
    returned_b,         \* what parse_to_year returns: "DataFrame" or "None"
    df_b,               \* the rows of the dataframe parse_to_year returns
    children,           \* CustomList.children: the rows, each a ListItem and its Divider
    counter,            \* CustomList.counter
    v_model             \* CustomList.v_model: the <<id_, pos>> that hold a selection

\* the variables of the duplicate removal on its own
vars_dedup == <<year_lists, deduped>>

\* the variables of the year planning of sub indicator B
vars_sub_b == <<sub_b_years, b_years, sub_b_items, sub_b_values>>

\* the variables of parse_result
vars_parse == <<result, single, df>>

\* the variables of parse_to_year_a
vars_to_year_a ==
    <<results_a, reporting_years_a, year_a, df_a, year1_a, year2_a, asked_a, deep_a>>

\* the variables of parse_to_year
vars_to_year_b == <<results_b, target_year, returned_b, df_b>>

\* the variables of the list of sub indicator pairs on its own
vars_custom_list == <<children, counter, v_model>>

\* the variables the year planning of sub indicator A does not use
vars_not_plan == <<vars_dedup, vars_sub_b, vars_parse, vars_to_year_a, vars_to_year_b,
                   vars_custom_list>>

\* the variables of the other areas, for each area outside the year
\* planning of sub indicator A
vars_beside_dedup == <<vars_sub_b, vars_parse, vars_to_year_a, vars_to_year_b,
    vars_custom_list>>
vars_beside_sub_b == <<vars_dedup, vars_parse, vars_to_year_a, vars_to_year_b,
    vars_custom_list>>
vars_beside_parse == <<vars_dedup, vars_sub_b, vars_to_year_a, vars_to_year_b,
    vars_custom_list>>
vars_beside_to_year_a == <<vars_dedup, vars_sub_b, vars_parse, vars_to_year_b,
    vars_custom_list>>
vars_beside_to_year_b == <<vars_dedup, vars_sub_b, vars_parse, vars_to_year_a,
    vars_custom_list>>
vars_beside_custom_list == <<vars_dedup, vars_sub_b, vars_parse, vars_to_year_a,
    vars_to_year_b>>

\* the variables of the year planning, pc and err apart
vars_plan == <<REPORT_INTERVALS, user_input_years, break_points, kind,
               breaking_points, years_to_calculate, shuffled, years_shuffled,
               err_shuffled, member_order, group_order>>

vars == <<pc, err, vars_plan, vars_not_plan>>

(***************************************************************************)
(* Bounds of the model                                                     *)
(***************************************************************************)
\* largest number of assets in the user input
MaxAssets == 3
\* largest number of year dictionaries over all bracket lists of one input
MaxBracket == 4

\* largest number of lists handed to remove_duplicated_years
MaxGroups == 2
\* largest number of year dictionaries in one of these lists
MaxMembers == 2

\* largest number of report years added to the baseline of sub indicator B
MaxExtras == 2

\* largest number of belts and of land cover classes of a belt in a single
\* level result
MaxBelts == 2
MaxClasses == 2

\* largest number of belts of a category and of transitions of a belt in a
\* double level result
MaxBeltsDouble == 1
MaxTransitions == 2

\* largest number of results handed to parse_to_year
MaxResults == 2

\* the years an asset can have and the reporting years
Years == {2009, 2010, 2011, 2015}
Assets == {"a", "b"}
\* period labels of the bracket lists
Labels == {2010, 2015}

YearSpec == [year : Years, asset : Assets]

(***************************************************************************)
(* Sequence helpers (Python list semantics)                                *)
(***************************************************************************)
Range(s) == {s[i] : i \in 1..Len(s)}

\* all lists over S of length lo..hi
SeqsOf(S, lo, hi) == UNION {[1..n -> S] : n \in lo..hi}

\* list comprehension [x for x in s if Test(x)]
RECURSIVE Filter(_, _)
Filter(s, keep) ==
    IF s = <<>> THEN <<>>
    ELSE IF Head(s) \in keep THEN <<Head(s)>> \o Filter(Tail(s), keep)
         ELSE Filter(Tail(s), keep)

\* every list that enumerates the set S once: the iteration orders of a set
SetOrders(S) ==
    {s \in [1..Cardinality(S) -> S] : \A x \in S : \E i \in 1..Cardinality(S) : s[i] = x}

\* the ascending list of a set of integers
RECURSIVE Ascending(_)
Ascending(S) ==
    IF S = {} THEN <<>>
    ELSE LET m == CHOOSE x \in S : \A y \in S : x <= y
         IN <<m>> \o Ascending(S \ {m})

\* str(n) as the list of its decimal digits
RECURSIVE Str(_)
Str(n) == IF n < 10 THEN <<n>> ELSE Append(Str(n \div 10), n % 10)

\* s in t for two strings: s occurs in t as a substring
Substring(s, t) ==
    \E i \in 0..(Len(t) - Len(s)) : SubSeq(t, i + 1, i + Len(s)) = s

\* s < t for two strings or two lists of integers
RECURSIVE LexLess(_, _)
LexLess(s, t) ==
    IF t = <<>> THEN FALSE
    ELSE IF s = <<>> THEN TRUE
    ELSE IF Head(s) < Head(t) THEN TRUE
    ELSE IF Head(s) > Head(t) THEN FALSE
    ELSE LexLess(Tail(s), Tail(t))

\* x < y for two years of Python type k
YearLess(k, x, y) == IF k = "int" THEN x < y ELSE LexLess(Str(x), Str(y))

(***************************************************************************)
(* get_sub_a_break_points                                                  *)
(***************************************************************************)
\* user_years = [val.get("year") for val in user_input_years.values()]
UserYears(input_years) == [i \in 1..Len(input_years) |-> input_years[i].year]

\* variant: the test for an input without years left out
AnyYearsNoGuard(user_years) == TRUE
\* any(user_years): some year is truthy (not 0)
AnyYears(user_years) == \E i \in 1..Len(user_years) : user_years[i] # 0

\* variant: the first year taken for the least one
MinYearFirst(user_years) == user_years[1]
\* min(user_years) and max(user_years) of a non-empty list
MinYear(user_years) ==
    CHOOSE y \in Range(user_years) : \A z \in Range(user_years) : y <= z
MaxYear(user_years) ==
    CHOOSE y \in Range(user_years) : \A z \in Range(user_years) : y >= z

\* variant: the filter without its upper limit
ReportingYearsNoUpper(user_years) ==
    Filter(REPORT_INTERVALS,
           {p \in Range(REPORT_INTERVALS) : p >= MinYear(user_years)})
ReportingYears(user_years) ==
    Filter(REPORT_INTERVALS,
           {p \in Range(REPORT_INTERVALS) :
               p >= MinYear(user_years) /\ p <= MaxYear(user_years)})

\* variant: a tie between assets of one year broken in favour of the first
ExactMatchesFirstOnly(input_years, report_year) ==
    LET all == Filter(input_years, {y \in Range(input_years) : y.year = report_year})
    IN  IF all = <<>> THEN <<>> ELSE <<Head(all)>>
\* [year for year in user_input_years.values() if year.get("year") == report_year]
ExactMatches(input_years, report_year) ==
    Filter(input_years, {y \in Range(input_years) : y.year = report_year})

\* min(s, key=year, default=None): the first element with the least year;
\* None is the empty list, a found element the list of that element
RECURSIVE MinByYear(_)
MinByYear(s) ==
    IF s = <<>> THEN <<>>
    ELSE LET rest == MinByYear(Tail(s))
         IN  IF rest = <<>> \/ Head(s).year <= rest[1].year
             THEN <<Head(s)>> ELSE rest

\* max(s, key=year, default=None): the first element with the greatest year
RECURSIVE MaxByYear(_)
MaxByYear(s) ==
    IF s = <<>> THEN <<>>
    ELSE LET rest == MaxByYear(Tail(s))
         IN  IF rest = <<>> \/ Head(s).year >= rest[1].year
             THEN <<Head(s)>> ELSE rest

\* variant: max in place of min
AfterReportYearLargest(input_years, report_year) ==
    MaxByYear(Filter(input_years,
                     {y \in Range(input_years) : y.year > report_year}))
\* minimum year that is larger than the report year
AfterReportYear(input_years, report_year) ==
    MinByYear(Filter(input_years,
                     {y \in Range(input_years) : y.year > report_year}))

\* maximum year that is smaller than the report year
BeforeReportYear(input_years, report_year) ==
    MaxByYear(Filter(input_years,
                     {y \in Range(input_years) : y.year < report_year}))

\* variant: the pair saved in the opposite order
InterpolationPairSwapped(before, after) == after \o before
\* the pair saved for a report year that is not a user input year
InterpolationPair(before, after) == before \o after

\* break_points[report_year]: one item of the returned dict; isnull marks None
BreakPoint(input_years, report_year) ==
    IF report_year \in Range(UserYears(input_years))
    THEN [period |-> report_year, isnull |-> FALSE,
          year |-> ExactMatches(input_years, report_year)]
    ELSE LET after  == AfterReportYear(input_years, report_year)
             before == BeforeReportYear(input_years, report_year)
         IN  IF before # <<>> /\ after # <<>>
             THEN [period |-> report_year, isnull |-> FALSE,
                   year |-> InterpolationPair(before, after)]
             ELSE [period |-> report_year, isnull |-> TRUE, year |-> <<>>]

\* the call: the exception it raises ("none" if it returns) and the dict
get_sub_a_break_points(input_years) ==
    LET user_years == UserYears(input_years)
    IN  IF ~AnyYears(user_years)
        THEN [err |-> "none", value |-> <<>>]
        ELSE IF user_years = <<>>
        THEN [err |-> "ValueError", value |-> <<>>]   \* min() of an empty list
        ELSE LET reporting_years == ReportingYears(user_years)
             IN  [err |-> "none",
                  value |-> [i \in 1..Len(reporting_years) |->
                                BreakPoint(input_years, reporting_years[i])]]

(***************************************************************************)
(* remove_duplicated_years                                                 *)
(***************************************************************************)
\* sorted(..., key=year) of Python type k: a stable sort
RECURSIVE InsertByYear(_, _, _)
InsertByYear(k, x, s) ==
    IF s = <<>> THEN <<x>>
    ELSE IF YearLess(k, x.year, Head(s).year) THEN <<x>> \o s
         ELSE <<Head(s)>> \o InsertByYear(k, x, Tail(s))

RECURSIVE SortByYear(_, _)
SortByYear(k, s) ==
    IF s = <<>> THEN <<>>
    ELSE InsertByYear(k, s[Len(s)], SortByYear(k, SubSeq(s, 1, Len(s) - 1)))

\* frozenset(frozenset(d.items()) for d in sublist) for sublist in breakpoints
ConvertedList(breakpoints) ==
    [i \in 1..Len(breakpoints) |-> Range(breakpoints[i])]

\* the elements of a list in the order of their first occurrence: the
\* order in which a set built from the list receives its elements
RECURSIVE Insertions(_)
Insertions(s) ==
    IF s = <<>> THEN <<>>
    ELSE LET front == Insertions(SubSeq(s, 1, Len(s) - 1))
         IN  IF s[Len(s)] \in Range(front) THEN front ELSE Append(front, s[Len(s)])

\* the sublist whose frozenset set(converted_list) keeps for the value fs:
\* the first one that is equal to it
KeptSublist(breakpoints, fs) ==
    breakpoints[CHOOSE i \in 1..Len(breakpoints) :
                   /\ Range(breakpoints[i]) = fs
                   /\ \A j \in 1..(i - 1) : Range(breakpoints[j]) # fs]

\* the insertion orders of the frozensets the call iterates over
MemberInsertions(breakpoints) ==
    {Insertions(KeptSublist(breakpoints, fs)) : fs \in Range(ConvertedList(breakpoints))}

\* the insertion order of set(converted_list)
GroupInsertions(breakpoints) == Insertions(ConvertedList(breakpoints))

\* The iteration order of a Python set is fixed by the hashes of its
\* elements and the order of their insertion, and by nothing the program
\* controls: an iteration order is any function from insertion orders to
\* enumerations of the same elements.
RECURSIVE IterationOrders(_)
IterationOrders(insertions) ==
    IF insertions = {} THEN {<<>>}
    ELSE LET x == CHOOSE y \in insertions : TRUE
         IN  {(x :> o) @@ f : o \in SetOrders(Range(x)),
                              f \in IterationOrders(insertions \ {x})}

\* the iteration orders that extend the orders known already
ConsistentOrders(known, insertions) ==
    {f \in IterationOrders(insertions) :
        \A x \in insertions \cap DOMAIN known : f[x] = known[x]}

\* variant: the lists sorted, none of them removed
remove_duplicated_years_keeping(k, breakpoints, mo, go) ==
    [i \in 1..Len(breakpoints) |-> SortByYear(k, breakpoints[i])]
\* the list returned, for the iteration orders mo of the frozensets and go
\* of set(converted_list)
remove_duplicated_years(k, breakpoints, mo, go) ==
    LET order == go[GroupInsertions(breakpoints)]
    IN  [i \in 1..Len(order) |->
            SortByYear(k, mo[Insertions(KeptSublist(breakpoints, order[i]))])]

(***************************************************************************)
(* get_interpolation_years                                                 *)
(***************************************************************************)
\* x.get("year") in period, for a year and a period label of Python type k:
\* "TypeError" when the label is an int, else the substring test
YearInPeriod(k, y, period) ==
    IF k = "int" THEN "TypeError"
    ELSE IF Substring(Str(y), Str(period)) THEN "yes" ELSE "no"

\* the two lists appended for a period of four years
FourYearsSplit(year) == <<SubSeq(year, 1, 2), SubSeq(year, 2, Len(year))>>

\* the loop over breaking_points.items(): the exception it stops with
\* ("none" if it ends) and years_to_calculate
RECURSIVE CollectYears(_, _, _)
CollectYears(k, items, acc) ==
    IF items = <<>> THEN [err |-> "none", value |-> acc]
    ELSE LET period == Head(items).period
             year   == Head(items).year
         IN  IF Head(items).isnull
             THEN [err |-> "TypeError", value |-> acc]       \* len(None)
             ELSE IF Len(year) = 4
             THEN CollectYears(k, Tail(items), acc \o FourYearsSplit(year))
             ELSE IF Len(year) = 3
             THEN IF YearInPeriod(k, year[1].year, period) = "TypeError"
                  THEN [err |-> "TypeError", value |-> acc]
                  ELSE IF YearInPeriod(k, year[1].year, period) = "yes"
                  THEN CollectYears(k, Tail(items),
                                    acc \o <<<<year[1]>>, SubSeq(year, 2, 3)>>)
                  ELSE IF YearInPeriod(k, year[3].year, period) = "yes"
                  THEN CollectYears(k, Tail(items),
                                    acc \o <<SubSeq(year, 1, 2), <<year[3]>>>>)
                  ELSE [err |-> "ValueError", value |-> acc]  \* Invalid reporting period.
             ELSE IF Len(year) = 2
             THEN CollectYears(k, Tail(items), Append(acc, year))
             ELSE [err |-> "ValueError", value |-> acc]       \* Invalid year format

\* [y.get("year") for y in x], the sort key of a segment
YearsOf(segment) == [i \in 1..Len(segment) |-> segment[i].year]

\* a < b for two lists of years of Python type k
RECURSIVE YearListLess(_, _, _)
YearListLess(k, a, b) ==
    IF b = <<>> THEN FALSE
    ELSE IF a = <<>> THEN TRUE
    ELSE IF YearLess(k, Head(a), Head(b)) THEN TRUE
    ELSE IF YearLess(k, Head(b), Head(a)) THEN FALSE
    ELSE YearListLess(k, Tail(a), Tail(b))

\* sorted(segments, key=years): a stable sort
RECURSIVE InsertSegment(_, _, _)
InsertSegment(k, x, s) ==
    IF s = <<>> THEN <<x>>
    ELSE IF YearListLess(k, YearsOf(x), YearsOf(Head(s))) THEN <<x>> \o s
         ELSE <<Head(s)>> \o InsertSegment(k, x, Tail(s))

RECURSIVE SortSegments(_, _)
SortSegments(k, s) ==
    IF s = <<>> THEN <<>>
    ELSE InsertSegment(k, s[Len(s)], SortSegments(k, SubSeq(s, 1, Len(s) - 1)))

\* the call, for the iteration orders mo and go of the sets it builds: the
\* exception raised ("none" if it returns) and the list returned
get_interpolation_years(k, items, mo, go) ==
    LET loop == CollectYears(k, items, <<>>)
    IN  IF loop.err # "none"
        THEN [err |-> loop.err, value |-> <<>>]
        ELSE LET d == remove_duplicated_years(k, loop.value, mo, go)
             IN  [err |-> "none",
                  value |-> SortSegments(k, [i \in 1..Len(d) |-> SortByYear(k, d[i])])]

\* the sets the call builds, by insertion order: none when the loop raises
MemberSetsBuilt(k, items) ==
    LET loop == CollectYears(k, items, <<>>)
    IN  IF loop.err # "none" THEN {} ELSE MemberInsertions(loop.value)

GroupSetsBuilt(k, items) ==
    LET loop == CollectYears(k, items, <<>>)
    IN  IF loop.err # "none" THEN {} ELSE {GroupInsertions(loop.value)}

(***************************************************************************)
(* Spec: the resolver and the extraction of its output                     *)
(***************************************************************************)
\* the variables of the other specifications, left at rest
DedupIdle == year_lists = <<>> /\ deduped = <<>>

SubBIdle ==
    sub_b_years = <<>> /\ b_years = <<>> /\ sub_b_items = <<>> /\ sub_b_values = <<>>

ParseIdle == result = <<>> /\ single = FALSE /\ df = <<>>

\* no call of parse_to_year_a or interpolate_sub_a_data was made
NotAsked == asked_a = <<>> /\ deep_a = 0 /\ df_a = <<>>

ToYearAIdle ==
    /\ results_a = <<>> /\ reporting_years_a = <<>> /\ year_a = 0
    /\ year1_a = 0 /\ year2_a = 0
    /\ NotAsked

ToYearBIdle ==
    /\ results_b = <<>>
    /\ target_year = [selector |-> "baseline", years |-> <<>>]
    /\ returned_b = ""
    /\ df_b = <<>>

\* max_ = Int(4 - 1)
max_ == 3

\* the ListItem and the Divider get_element returns while counter is id_; the
\* row of single=True shows no remove button
get_element(id_, single_) == [id |-> id_, single |-> single_]

\* the list as __init__ leaves it: counter = Int(1), v_model = Dict({}),
\* children = get_element(single=True)
CustomListIdle ==
    /\ counter = 1
    /\ v_model = {}
    /\ children = <<get_element(1, TRUE)>>

NotPlanIdle ==
    DedupIdle /\ SubBIdle /\ ParseIdle /\ ToYearAIdle /\ ToYearBIdle /\ CustomListIdle

\* the lists param.REPORT_INTERVALS can be: the reporting years, ascending
ReportIntervalLists == {Ascending(S) : S \in SUBSET Years}

Init ==
    /\ pc = "start"
    /\ REPORT_INTERVALS \in ReportIntervalLists
    /\ user_input_years \in SeqsOf(YearSpec, 0, MaxAssets)
    /\ break_points = <<>>
    /\ kind = "int"
    /\ breaking_points = <<>>
    /\ years_to_calculate = <<>>
    /\ err = "none"
    /\ shuffled = <<>>
    /\ years_shuffled = <<>>
    /\ err_shuffled = "none"
    /\ member_order = <<>>
    /\ group_order = <<>>
    /\ NotPlanIdle

\* break_points = get_sub_a_break_points(user_input_years)
GetSubABreakPoints ==
    /\ pc = "start"
    /\ LET r == get_sub_a_break_points(user_input_years)
       IN  /\ break_points' = r.value
           /\ err' = r.err
    /\ pc' = "resolved"
    /\ UNCHANGED <<REPORT_INTERVALS, user_input_years, kind, breaking_points,
                   years_to_calculate, shuffled, years_shuffled, err_shuffled,
                   member_order, group_order>>
    /\ UNCHANGED vars_not_plan

\* get_interpolation_years(break_points)
GetInterpolationYearsOfBreakPoints ==
    /\ pc = "resolved"
    /\ err = "none"
    /\ breaking_points' = break_points
    /\ \E mo \in ConsistentOrders(member_order, MemberSetsBuilt(kind, break_points)),
          go \in ConsistentOrders(group_order, GroupSetsBuilt(kind, break_points)) :
           LET r == get_interpolation_years(kind, break_points, mo, go)
           IN  /\ years_to_calculate' = r.value
               /\ err' = r.err
               /\ member_order' = mo @@ member_order
               /\ group_order' = go @@ group_order
    /\ pc' = "extracted"
    /\ UNCHANGED <<REPORT_INTERVALS, user_input_years, break_points, kind,
                   shuffled, years_shuffled, err_shuffled>>
    /\ UNCHANGED vars_not_plan

Next == GetSubABreakPoints \/ GetInterpolationYearsOfBreakPoints

Spec == Init /\ [][Next]_vars

(***************************************************************************)
(* SpecExtract: get_interpolation_years on bracket lists                   *)
(***************************************************************************)
\* the lists of n different year dictionaries in ascending order of year
BracketLists(n) ==
    {s \in [1..n -> YearSpec] :
        /\ \A i \in 1..(n - 1) : s[i].year <= s[i + 1].year
        /\ \A i \in 1..n : \A j \in 1..n : s[i] = s[j] => i = j}

Item(label, list) == [period |-> label, isnull |-> FALSE, year |-> list]

\* the dicts of one or two periods holding at most most year dictionaries
BracketDicts(most) ==
    {<<Item(l, s)>> : l \in Labels, s \in UNION {BracketLists(n) : n \in 1..most}}
    \cup
    UNION {{<<Item(l[1], s1), Item(l[2], s2)>> :
               l \in {m \in Labels \X Labels : m[1] # m[2]},
               s1 \in BracketLists(n[1]), s2 \in BracketLists(n[2])} :
           n \in {m \in (1..most) \X (1..most) : m[1] + m[2] <= most}}

InitExtract ==
    /\ pc = "start"
    /\ REPORT_INTERVALS = <<>>
    /\ user_input_years = <<>>
    /\ break_points = <<>>
    /\ kind \in {"int", "str"}
    /\ breaking_points \in BracketDicts(MaxBracket)
    /\ years_to_calculate = <<>>
    /\ err = "none"
    /\ shuffled = <<>>
    /\ years_shuffled = <<>>
    /\ err_shuffled = "none"
    /\ member_order = <<>>
    /\ group_order = <<>>
    /\ NotPlanIdle

\* years_to_calculate = get_interpolation_years(breaking_points)
GetInterpolationYears ==
    /\ pc = "start"
    /\ \E mo \in ConsistentOrders(member_order, MemberSetsBuilt(kind, breaking_points)),
          go \in ConsistentOrders(group_order, GroupSetsBuilt(kind, breaking_points)) :
           LET r == get_interpolation_years(kind, breaking_points, mo, go)
           IN  /\ years_to_calculate' = r.value
               /\ err' = r.err
               /\ member_order' = mo @@ member_order
               /\ group_order' = go @@ group_order
    /\ pc' = "extracted"
    /\ UNCHANGED <<REPORT_INTERVALS, user_input_years, break_points, kind,
                   breaking_points, shuffled, years_shuffled, err_shuffled>>
    /\ UNCHANGED vars_not_plan

\* the same call, in the same process, on the same items inserted in
\* another order
GetInterpolationYearsShuffled ==
    /\ pc = "extracted"
    /\ \E o \in SetOrders(Range(breaking_points)) :
           /\ o # breaking_points
           /\ shuffled' = o
           /\ \E mo \in ConsistentOrders(member_order, MemberSetsBuilt(kind, o)),
                 go \in ConsistentOrders(group_order, GroupSetsBuilt(kind, o)) :
                  LET r == get_interpolation_years(kind, o, mo, go)
                  IN  /\ years_shuffled' = r.value
                      /\ err_shuffled' = r.err
                      /\ member_order' = mo @@ member_order
                      /\ group_order' = go @@ group_order
    /\ pc' = "shuffled"
    /\ UNCHANGED <<REPORT_INTERVALS, user_input_years, break_points, kind,
                   breaking_points, years_to_calculate, err>>
    /\ UNCHANGED vars_not_plan

NextExtract == GetInterpolationYears \/ GetInterpolationYearsShuffled

SpecExtract == InitExtract /\ [][NextExtract]_vars

(***************************************************************************)
(* SpecDedup: remove_duplicated_years on lists in any member order         *)
(***************************************************************************)
\* the year dictionaries of the lists: two assets of one year and one asset
\* of another year
DedupYearSpecs ==
    {[year |-> 2009, asset |-> "a"], [year |-> 2009, asset |-> "b"],
     [year |-> 2011, asset |-> "a"]}

\* the lists of year dictionaries: no dictionary twice in one list
DedupLists ==
    {l \in SeqsOf(DedupYearSpecs, 1, MaxMembers) :
        \A i, j \in 1..Len(l) : i # j => l[i] # l[j]}

PlanIdle ==
    /\ REPORT_INTERVALS = <<>>
    /\ user_input_years = <<>>
    /\ break_points = <<>>
    /\ breaking_points = <<>>
    /\ years_to_calculate = <<>>
    /\ shuffled = <<>>
    /\ years_shuffled = <<>>
    /\ err_shuffled = "none"
    /\ member_order = <<>>
    /\ group_order = <<>>

InitDedup ==
    /\ pc = "start"
    /\ err = "none"
    /\ PlanIdle
    /\ CustomListIdle
    /\ kind \in {"int", "str"}
    /\ year_lists \in SeqsOf(DedupLists, 1, MaxGroups)
    /\ deduped = <<>>
    /\ SubBIdle
    /\ ParseIdle
    /\ ToYearAIdle
    /\ ToYearBIdle

\* deduped = remove_duplicated_years(year_lists)
RemoveDuplicatedYears ==
    /\ pc = "start"
    /\ \E mo \in ConsistentOrders(member_order, MemberInsertions(year_lists)),
          go \in ConsistentOrders(group_order, {GroupInsertions(year_lists)}) :
           /\ deduped' = remove_duplicated_years(kind, year_lists, mo, go)
           /\ member_order' = mo @@ member_order
           /\ group_order' = go @@ group_order
    /\ pc' = "deduped"
    /\ UNCHANGED <<err, REPORT_INTERVALS, user_input_years, break_points, kind,
                   breaking_points, years_to_calculate, shuffled, years_shuffled,
                   err_shuffled, year_lists>>
    /\ UNCHANGED vars_beside_dedup

NextDedup == RemoveDuplicatedYears

SpecDedup == InitDedup /\ [][NextDedup]_vars

(***************************************************************************)
(* get_b_years, get_reporting_years, get_sub_b_items                       *)
(***************************************************************************)
\* An item of sub_b_years is [type, id, value]: the key "baseline" is
\* type "baseline" with the value <<base, report>>, the key of a row of the
\* list is type "row" and the number id of the row, with the value
\* <<year dictionary>>.

\* sub_b_years.get("baseline")
Baseline(years) ==
    (CHOOSE i \in 1..Len(years) : years[i].type = "baseline")

\* the items whose type is not "baseline", in the order of the dict
NotBaseline(years) ==
    Filter(years, {it \in Range(years) : it.type # "baseline"})

\* variant: a report year that was met before is left out
get_b_years_once(years) ==
    LET base   == years[Baseline(years)].value[1]
        report == years[Baseline(years)].value[2]
        extras == Insertions([i \in 1..Len(NotBaseline(years)) |->
                                 NotBaseline(years)[i].value[1]])
    IN  [i \in 1..Len(extras) |-> <<base, report, extras[i]>>]
\* years_to_calculate of get_b_years: (base, report, value) for each item
\* that is not the baseline
get_b_years(years) ==
    LET base   == years[Baseline(years)].value[1]
        report == years[Baseline(years)].value[2]
        extras == NotBaseline(years)
    IN  [i \in 1..Len(extras) |-> <<base, report, extras[i].value[1]>>]

\* get_reporting_years(years, "sub_b"): the tuple (base year, report year)
\* followed by the year of each item that is not the baseline
get_reporting_years_sub_b(years) ==
    LET extras == NotBaseline(years)
    IN  <<<<years[Baseline(years)].value[1].year,
            years[Baseline(years)].value[2].year>>>>
        \o [i \in 1..Len(extras) |-> extras[i].value[1].year]

\* " -> ".join(strs): the strings with the characters ' ', '-', '>', ' '
\* between them (a character that is no digit is its ASCII code)
RECURSIVE JoinArrow(_)
JoinArrow(strs) ==
    IF strs = <<>> THEN <<>>
    ELSE IF Len(strs) = 1 THEN strs[1]
    ELSE strs[1] \o <<32, 45, 62, 32>> \o JoinArrow(Tail(strs))

\* variant: each report year paired with the base year of the baseline
TransitionYearsFromBase(reporting_years_sub_b) ==
    <<reporting_years_sub_b[1]>> \o
    [i \in 1..(Len(reporting_years_sub_b) - 1) |->
        <<reporting_years_sub_b[1][1], reporting_years_sub_b[i + 1]>>]
\* transition_years: the baseline, then [report year of the baseline, report_y]
TransitionYears(reporting_years_sub_b) ==
    <<reporting_years_sub_b[1]>> \o
    [i \in 1..(Len(reporting_years_sub_b) - 1) |->
        <<reporting_years_sub_b[1][2], reporting_years_sub_b[i + 1]>>]

\* the values and the labels of get_sub_b_items
SubBValues(transition_years) ==
    [i \in 1..Len(transition_years) |->
        [selector |-> IF i = 1 THEN "baseline" ELSE "report",
         years |-> transition_years[i]]]

SubBLabels(transition_years) ==
    [i \in 1..Len(transition_years) |->
        JoinArrow([j \in 1..Len(transition_years[i]) |-> Str(transition_years[i][j])])]

\* get_sub_b_items: the pair (items, values)
get_sub_b_items(reporting_years_sub_b) ==
    LET transition_years == TransitionYears(reporting_years_sub_b)
        values == SubBValues(transition_years)
        labels == SubBLabels(transition_years)
    IN  [items  |-> [i \in 1..Len(labels) |-> [text |-> labels[i], value |-> values[i]]],
         values |-> values]

(***************************************************************************)
(* SpecSubB: the year planning of sub indicator B                          *)
(***************************************************************************)
\* the years the user can select for sub indicator B
YearsB == {2000, 2015, 2018, 2019}
YearSpecB == [year : YearsB, asset : Assets]
\* the year dictionaries of the baseline: one asset is enough there
BaselineYearSpecB == [year : YearsB, asset : {"a"}]

\* the dict of the baseline (b, r), at the place at, and the report years e
SubBYears(at, b, r, e) ==
    [i \in 1..(Len(e) + 1) |->
        IF i = at THEN [type |-> "baseline", id |-> 0, value |-> <<b, r>>]
        ELSE [type |-> "row", id |-> IF i < at THEN i ELSE i - 1,
              value |-> <<e[IF i < at THEN i ELSE i - 1]>>]]

InitSubB ==
    /\ pc = "start"
    /\ err = "none"
    /\ PlanIdle
    /\ CustomListIdle
    /\ kind = "int"
    /\ DedupIdle
    /\ ParseIdle
    /\ ToYearAIdle
    /\ ToYearBIdle
    /\ \E n \in 0..MaxExtras : \E at \in 1..(n + 1) :
          \E b \in BaselineYearSpecB, r \in BaselineYearSpecB, e \in [1..n -> YearSpecB] :
              sub_b_years = SubBYears(at, b, r, e)
    /\ b_years = <<>>
    /\ sub_b_items = <<>>
    /\ sub_b_values = <<>>

\* b_years = get_b_years(sub_b_years)
GetBYears ==
    /\ pc = "start"
    /\ b_years' = get_b_years(sub_b_years)
    /\ pc' = "assembled"
    /\ UNCHANGED <<err, vars_plan, vars_beside_sub_b, sub_b_years, sub_b_items, sub_b_values>>

\* sub_b_items, sub_b_values =
\*     get_sub_b_items(get_reporting_years(sub_b_years, "sub_b"))
GetSubBItems ==
    /\ pc = "assembled"
    /\ LET r == get_sub_b_items(get_reporting_years_sub_b(sub_b_years))
       IN  /\ sub_b_items' = r.items
           /\ sub_b_values' = r.values
    /\ pc' = "listed"
    /\ UNCHANGED <<err, vars_plan, vars_beside_sub_b, sub_b_years, b_years>>

NextSubB == GetBYears \/ GetSubBItems

SpecSubB == InitSubB /\ [][NextSubB]_vars

(***************************************************************************)
(* parse_result                                                            *)
(***************************************************************************)
\* A dictionary of the nested result is a record: keys is the set of the
\* keys it has, and group, groups, sum are their values (0 or <<>> for a key
\* it does not have).  A double level result is the list of its items
\* [category, groups] in the order of the dict.

\* the concatenation of a list of lists
RECURSIVE Concat(_)
Concat(lists) ==
    IF lists = <<>> THEN <<>> ELSE Head(lists) \o Concat(Tail(lists))

\* belt["groups"], belt["group"], lc_class["group"] and lc_class["sum"] are
\* read for each class of a belt: a KeyError if one of these keys is missing
SingleKeyError(belts) ==
    \E b \in 1..Len(belts) :
        \/ "groups" \notin belts[b].keys
        \/ /\ belts[b].groups # <<>>
           /\ \/ "group" \notin belts[b].keys
              \/ \E c \in 1..Len(belts[b].groups) :
                    ~({"group", "sum"} \subseteq belts[b].groups[c].keys)

\* variant: only the first class of each belt gives a row
SingleRowsFirstClass(belts) ==
    Concat([b \in 1..Len(belts) |->
        [c \in 1..(IF belts[b].groups = <<>> THEN 0 ELSE 1) |->
            [belt_class |-> belts[b].group,
             lc_class |-> belts[b].groups[c].group,
             sum |-> belts[b].groups[c].sum]]])
\* df.loc[s] = [belt["group"], lc_class["group"], lc_class["sum"]] for each
\* class of each belt
SingleRows(belts) ==
    Concat([b \in 1..Len(belts) |->
        [c \in 1..Len(belts[b].groups) |->
            [belt_class |-> belts[b].group,
             lc_class |-> belts[b].groups[c].group,
             sum |-> belts[b].groups[c].sum]]])

\* group_data["group"] and group_data["groups"] are read for each belt, and
\* sub_group_data["group"], sub_group_data["sum"] for each of its transitions
DoubleKeyError(items) ==
    \E k \in 1..Len(items) : \E b \in 1..Len(items[k].groups) :
        LET group_data == items[k].groups[b]
        IN  \/ ~({"group", "groups"} \subseteq group_data.keys)
            \/ \E c \in 1..Len(group_data.groups) :
                  ~({"group", "sum"} \subseteq group_data.groups[c].keys)

\* the row of each transition of each belt of each category
DoubleRows(items) ==
    Concat([k \in 1..Len(items) |->
        Concat([b \in 1..Len(items[k].groups) |->
            [c \in 1..Len(items[k].groups[b].groups) |->
                [category |-> items[k].category,
                 belt_class |-> items[k].groups[b].group,
                 transition |-> items[k].groups[b].groups[c].group,
                 sum |-> items[k].groups[b].groups[c].sum]]])])

\* parse_result(result, single): the rows of the dataframe, or the error
parse_result(res, sngl) ==
    IF sngl
    THEN IF SingleKeyError(res) THEN [err |-> "KeyError", rows |-> <<>>]
         ELSE [err |-> "none", rows |-> SingleRows(res)]
    ELSE IF DoubleKeyError(res) THEN [err |-> "KeyError", rows |-> <<>>]
         ELSE [err |-> "none", rows |-> DoubleRows(res)]

(***************************************************************************)
(* SpecParse: parse_result on the results of the reducers;                 *)
(* SpecParseDamaged: on results of which one dictionary lacks a key        *)
(***************************************************************************)
\* the sums of the reducer, the codes of the transitions and the categories
Sums == {10, 20}
TransitionCodes == {102, 201}
Categories == {"baseline_transition", "report_transition"}

\* the innermost dictionary {"group": c, "sum": s}
Leaf(c, s) == [keys |-> {"group", "sum"}, group |-> c, groups |-> <<>>, sum |-> s]

\* the dictionary {"group": g, "groups": [...]}
Group(g, groups) == [keys |-> {"group", "groups"}, group |-> g, groups |-> groups, sum |-> 0]

\* the lists of at most hi groups a grouped reducer returns: one group for
\* each of some of the labels, in ascending order of label
Labelled(lists) ==
    {l \in lists : \A i \in 1..(Len(l) - 1) : l[i].group < l[i + 1].group}

LeafLists(labels, hi) ==
    Labelled(SeqsOf({Leaf(c, s) : c \in labels, s \in Sums}, 0, hi))

GroupLists(labels, hi, below) ==
    Labelled(UNION {[1..n -> [keys : {{"group", "groups"}}, group : labels,
                              groups : below, sum : {0}]] : n \in 0..hi})

\* the single level results: belts, each with its land cover classes
SingleTrees == GroupLists(1..MaxBelts, MaxBelts, LeafLists(1..MaxClasses, MaxClasses))

\* the double level results: categories in any order, each with its belts,
\* each belt with its transitions
DoubleBelts ==
    GroupLists(1..MaxBeltsDouble, MaxBeltsDouble, LeafLists(TransitionCodes, MaxTransitions))

DoubleTrees ==
    {<<>>}
    \cup {<<[category |-> c, groups |-> g]>> : c \in Categories, g \in DoubleBelts}
    \cup {<<[category |-> c[1], groups |-> g1], [category |-> c[2], groups |-> g2]>> :
             c \in {d \in Categories \X Categories : d[1] # d[2]},
             g1 \in DoubleBelts, g2 \in DoubleBelts}

\* the dictionary d without the key k
Without(d, k) ==
    [keys |-> d.keys \ {k},
     group |-> IF k = "group" THEN 0 ELSE d.group,
     groups |-> IF k = "groups" THEN <<>> ELSE d.groups,
     sum |-> IF k = "sum" THEN 0 ELSE d.sum]

\* the belts of which one belt or one class of a belt lacks one key
DamagedBelts(belts) ==
    {[belts EXCEPT ![b] = Without(belts[b], k)] :
        b \in 1..Len(belts), k \in {"group", "groups"}}
    \cup UNION {{[belts EXCEPT ![b].groups[c] = Without(belts[b].groups[c], k)] :
                    c \in 1..Len(belts[b].groups), k \in {"group", "sum"}} :
                  b \in 1..Len(belts)}

DamagedSingleTrees(trees) == UNION {DamagedBelts(t) : t \in trees}

DamagedDoubleTrees(trees) ==
    UNION {UNION {{[t EXCEPT ![k].groups = g] : g \in DamagedBelts(t[k].groups)} :
                     k \in 1..Len(t)} : t \in trees}

ParseStart ==
    /\ pc = "start"
    /\ err = "none"
    /\ PlanIdle
    /\ CustomListIdle
    /\ kind = "int"
    /\ DedupIdle
    /\ SubBIdle
    /\ ToYearAIdle
    /\ ToYearBIdle
    /\ df = <<>>

InitParse ==
    /\ ParseStart
    /\ single \in BOOLEAN
    /\ result \in (IF single THEN SingleTrees ELSE DoubleTrees)

InitParseDamaged ==
    /\ ParseStart
    /\ single \in BOOLEAN
    /\ result \in (IF single THEN DamagedSingleTrees(SingleTrees)
                   ELSE DamagedDoubleTrees(DoubleTrees))

\* df = parse_result(result, single)
ParseResult ==
    /\ pc = "start"
    /\ LET r == parse_result(result, single)
       IN  /\ err' = r.err
           /\ df' = r.rows
    /\ pc' = "parsed"
    /\ UNCHANGED <<vars_plan, vars_beside_parse, result, single>>

NextParse == ParseResult

SpecParse == InitParse /\ [][NextParse]_vars

NextParseDamaged == ParseResult

SpecParseDamaged == InitParseDamaged /\ [][NextParseDamaged]_vars

(***************************************************************************)
(* parse_to_year_a, interpolate_sub_a_data                                 *)
(***************************************************************************)
\* A label of the results is the list of the strings its split("_") gives;
\* an item of the results is [key, groups].  The break points are the items
\* [period, isnull, year] get_sub_a_break_points returns.  A sum is the
\* fraction <<numerator, denominator>> in lowest terms: an int n is <<n, 1>>.

RECURSIVE GCD(_, _)
GCD(a, b) == IF b = 0 THEN a ELSE GCD(b, a % b)

Abs(n) == IF n < 0 THEN 0 - n ELSE n

Frac(n, d) ==
    LET g == GCD(Abs(n), d)
    IN  IF n = 0 THEN <<0, 1>> ELSE <<n \div g, d \div g>>

\* the rows of parse_result, single level, with their sums as fractions
WithFractions(rows) ==
    [i \in 1..Len(rows) |->
        [belt_class |-> rows[i].belt_class, lc_class |-> rows[i].lc_class,
         sum |-> Frac(rows[i].sum, 1)]]

\* individual_yrs = [y for y in results.keys() if len(y.split("_")) == 1]
IndividualYears(items) ==
    LET singles == Filter(items, {it \in Range(items) : Len(it.key) = 1})
    IN  [i \in 1..Len(singles) |-> singles[i].key[1]]

\* variant: no year is found among the single year labels
InIndividualYearsNever(items, y) == FALSE
\* any([str_year in yr for yr in individual_yrs])
InIndividualYears(items, y) ==
    \E yr \in Range(IndividualYears(items)) : Substring(Str(y), yr)

\* the places of the mapping d (a list of items) that hold the key k
Places(d, field, k) == {i \in 1..Len(d) : d[i][field] = k}

\* variant: the mean of sum_x and sum_y, wherever the target year lies
InterpolatedMean(df1, df2, year1, year2, target) ==
    Concat([i \in 1..Len(df1) |->
        LET same == Filter(df2, {r \in Range(df2) :
                            /\ r.belt_class = df1[i].belt_class
                            /\ r.lc_class = df1[i].lc_class})
        IN  [j \in 1..Len(same) |->
                [belt_class |-> df1[i].belt_class, lc_class |-> df1[i].lc_class,
                 sum |-> Frac(df1[i].sum[1] * same[j].sum[2]
                              + same[j].sum[1] * df1[i].sum[2],
                              df1[i].sum[2] * same[j].sum[2] * 2)]]])
\* df1.merge(df2, on=["belt_class", "lc_class"]) and the interpolation of
\* each merged row between (year1, sum_x) and (year2, sum_y) at target_year
Interpolated(df1, df2, year1, year2, target) ==
    Concat([i \in 1..Len(df1) |->
        LET same == Filter(df2, {r \in Range(df2) :
                            /\ r.belt_class = df1[i].belt_class
                            /\ r.lc_class = df1[i].lc_class})
        IN  [j \in 1..Len(same) |->
                [belt_class |-> df1[i].belt_class, lc_class |-> df1[i].lc_class,
                 sum |-> Frac(df1[i].sum[1] * same[j].sum[2] * (year2 - target)
                              + same[j].sum[1] * df1[i].sum[2] * (target - year1),
                              df1[i].sum[2] * same[j].sum[2] * (year2 - year1))]]])

\* variant: the target year may be year1 or year2
InvalidRangeOpenEnds(year1, year2, target) ==
    ~(year2 > year1) \/ ~(year1 <= target /\ target <= year2)
\* not year2 > year1, or not (year1 < target_year < year2)
InvalidRange(year1, year2, target) ==
    ~(year2 > year1) \/ ~(year1 < target /\ target < year2)

\* parse_to_year_a(results, reporting_years, year) and
\* interpolate_sub_a_data(results, reporting_years, year1, year2, target_year);
\* depth is the number of calls the recursion may still nest.  The value is
\* the error raised and the rows returned, with the years parse_to_year_a
\* was called with (asked) and the number of interpolate_sub_a_data calls
\* that were nested (deep).
RECURSIVE parse_to_year_a(_, _, _, _)
RECURSIVE interpolate_sub_a_data(_, _, _, _, _, _)
parse_to_year_a(items, breaks, y, depth) ==
    LET Raised(e) == [err |-> e, rows |-> <<>>, asked |-> <<y>>, deep |-> 0]
    IN
    IF depth = 0 THEN Raised("RecursionError")
    ELSE IF InIndividualYears(items, y)
    THEN IF Places(items, "key", <<Str(y)>>) = {}
         THEN Raised("KeyError")
         ELSE LET r == parse_result(
                           items[CHOOSE i \in Places(items, "key", <<Str(y)>>) : TRUE].groups,
                           TRUE)
              IN  [err |-> r.err, rows |-> WithFractions(r.rows),
                   asked |-> <<y>>, deep |-> 0]
    ELSE IF Places(breaks, "period", y) = {}
    THEN Raised("AssertionError")
    ELSE LET value == breaks[CHOOSE i \in Places(breaks, "period", y) : TRUE]
         IN  IF value.isnull THEN Raised("TypeError")
             ELSE IF Len(value.year) < 2 THEN Raised("IndexError")
             ELSE LET r == interpolate_sub_a_data(items, breaks, value.year[1].year,
                                                  value.year[2].year, y, depth - 1)
                  IN  [r EXCEPT !.asked = <<y>> \o r.asked]
interpolate_sub_a_data(items, breaks, year1, year2, target, depth) ==
    IF InvalidRange(year1, year2, target)
    THEN [err |-> "Exception", rows |-> <<>>, asked |-> <<>>, deep |-> 1]
    ELSE LET df1 == parse_to_year_a(items, breaks, year1, depth)
             df2 == parse_to_year_a(items, breaks, year2, depth)
             deepest == IF df1.deep > df2.deep THEN df1.deep ELSE df2.deep
         IN  IF df1.err # "none" THEN [df1 EXCEPT !.deep = df1.deep + 1]
             ELSE IF df2.err # "none"
             THEN [df2 EXCEPT !.asked = df1.asked \o df2.asked,
                              !.deep = deepest + 1]
             ELSE [err |-> "none",
                   rows |-> Interpolated(df1.rows, df2.rows, year1, year2, target),
                   asked |-> df1.asked \o df2.asked,
                   deep |-> deepest + 1]

(***************************************************************************)
(* SpecToYearA: parse_to_year_a on results and break points                *)
(***************************************************************************)
\* the years of the single year labels, and the years that can be asked:
\* 201 is a year whose digits are the start of the label "2010"
ResultYears == {2009, 2010, 2011}
AskedYears == {201, 2009, 2010, 2011}

\* the single level results of a year
ResultTrees ==
    {<<Group(1, <<Leaf(1, 10)>>)>>, <<Group(1, <<Leaf(1, 20)>>)>>,
     <<Group(1, <<Leaf(1, 10), Leaf(2, 20)>>)>>,
     <<Group(1, <<Leaf(1, 20), Leaf(2, 10)>>)>>}

\* the results: a single level result for some of the years, followed or
\* not by the result of a request of two years
ResultsOver(years) ==
    UNION {{[i \in 1..Len(ys) |-> [key |-> <<Str(ys[i])>>, groups |-> ts[i]]] \o rest :
               ts \in [1..Len(ys) -> ResultTrees],
               rest \in {<<>>, <<[key |-> <<Str(2009), Str(2015)>>, groups |-> <<>>]>>}} :
             ys \in {Ascending(T) : T \in SUBSET years}}

ResultsA == ResultsOver(ResultYears)

\* the values a period can have in the break points: None, the year
\* dictionary of the period itself, or two year dictionaries
BreakValues(period) ==
    {[period |-> period, isnull |-> TRUE, year |-> <<>>],
     [period |-> period, isnull |-> FALSE, year |-> <<[year |-> period, asset |-> "a"]>>]}
    \cup {[period |-> period, isnull |-> FALSE,
           year |-> <<[year |-> p[1], asset |-> "a"], [year |-> p[2], asset |-> "a"]>>] :
             p \in {<<2009, 2011>>, <<2011, 2009>>, <<2009, 2010>>, <<2010, 2015>>}}

\* the break points: a value for none, one or both of the periods 2010, 2011
BreakPointsA ==
    {<<>>}
    \cup {<<v>> : v \in BreakValues(2010) \cup BreakValues(2011)}
    \cup {<<v, w>> : v \in BreakValues(2010), w \in BreakValues(2011)}

InitToYearA ==
    /\ pc = "start"
    /\ err = "none"
    /\ PlanIdle
    /\ CustomListIdle
    /\ kind = "int"
    /\ DedupIdle
    /\ SubBIdle
    /\ ParseIdle
    /\ ToYearBIdle
    /\ results_a \in ResultsA
    /\ reporting_years_a \in BreakPointsA
    /\ year_a \in AskedYears
    /\ year1_a = 0
    /\ year2_a = 0
    /\ NotAsked

\* df_a = parse_to_year_a(results_a, reporting_years_a, year_a)
ParseToYearA ==
    /\ pc = "start"
    /\ LET r == parse_to_year_a(results_a, reporting_years_a, year_a,
                                Len(reporting_years_a) + 1)
       IN  /\ err' = r.err
           /\ df_a' = r.rows
           /\ asked_a' = r.asked
           /\ deep_a' = r.deep
    /\ pc' = "returned"
    /\ UNCHANGED <<vars_plan, vars_beside_to_year_a, results_a, reporting_years_a, year_a,
                   year1_a, year2_a>>

NextToYearA == ParseToYearA

SpecToYearA == InitToYearA /\ [][NextToYearA]_vars

(***************************************************************************)
(* SpecInterpolate: interpolate_sub_a_data on results and three years      *)
(***************************************************************************)
\* the years of the results; the target years are these and 2010
InterpolationYears == {2009, 2011, 2015}

InitInterpolate ==
    /\ pc = "start"
    /\ err = "none"
    /\ PlanIdle
    /\ CustomListIdle
    /\ kind = "int"
    /\ DedupIdle
    /\ SubBIdle
    /\ ParseIdle
    /\ ToYearBIdle
    /\ results_a \in ResultsOver(InterpolationYears)
    /\ reporting_years_a = <<>>
    /\ year1_a \in InterpolationYears
    /\ year2_a \in InterpolationYears
    /\ year_a \in InterpolationYears \cup {2010}
    /\ NotAsked

\* df_a = interpolate_sub_a_data(results_a, reporting_years_a, year1_a,
\*                               year2_a, year_a)
InterpolateSubAData ==
    /\ pc = "start"
    /\ LET r == interpolate_sub_a_data(results_a, reporting_years_a, year1_a, year2_a,
                                       year_a, Len(reporting_years_a) + 1)
       IN  /\ err' = r.err
           /\ df_a' = r.rows
           /\ asked_a' = r.asked
           /\ deep_a' = r.deep
    /\ pc' = "interpolated"
    /\ UNCHANGED <<vars_plan, vars_beside_to_year_a, results_a, reporting_years_a, year_a,
                   year1_a, year2_a>>

NextInterpolate == InterpolateSubAData

SpecInterpolate == InitInterpolate /\ [][NextInterpolate]_vars

(***************************************************************************)
(* SpecServe: get_sub_a_break_points, then parse_to_year_a for a key of    *)
(* its break points on results that hold every year of the user            *)
(***************************************************************************)
\* the result of the year y: one belt, one class, a sum that tells the years
\* apart
ResultOfYear(y) == <<Group(1, <<Leaf(1, y % 100)>>)>>

\* the results of the years of the user, one label for each year
ResultsOfUserYears(input_years) ==
    LET ys == Insertions(UserYears(input_years))
    IN  [i \in 1..Len(ys) |-> [key |-> <<Str(ys[i])>>, groups |-> ResultOfYear(ys[i])]]

\* df_a = parse_to_year_a(results, break_points, year) for a key of
\* break_points
ParseBreakPointYear ==
    /\ pc = "resolved"
    /\ err = "none"
    /\ \E i \in 1..Len(break_points) :
          LET r == parse_to_year_a(ResultsOfUserYears(user_input_years), break_points,
                                   break_points[i].period, Len(break_points) + 1)
          IN  /\ results_a' = ResultsOfUserYears(user_input_years)
              /\ reporting_years_a' = break_points
              /\ year_a' = break_points[i].period
              /\ err' = r.err
              /\ df_a' = r.rows
              /\ asked_a' = r.asked
              /\ deep_a' = r.deep
    /\ pc' = "served"
    /\ UNCHANGED <<vars_plan, vars_beside_to_year_a, year1_a, year2_a>>

NextServe == GetSubABreakPoints \/ ParseBreakPointYear

SpecServe == Init /\ [][NextServe]_vars

(***************************************************************************)
(* parse_to_year                                                           *)
(***************************************************************************)
\* An item of the results is [key, value]: key is the list of the strings
\* split("_") gives for the label, value the double level result.  The
\* selector {"baseline": [b, r]} or {"report": [r, e]} is the record
\* [selector, years].

\* the label of a key: its parts with the character '_' between them
RECURSIVE JoinUnderscore(_)
JoinUnderscore(parts) ==
    IF parts = <<>> THEN <<>>
    ELSE IF Len(parts) = 1 THEN parts[1]
    ELSE parts[1] \o <<95>> \o JoinUnderscore(Tail(parts))

\* df.loc[:, "from_lc"] = df.transition // 100 and
\* df.loc[:, "to_lc"] = df.transition % 100
Decoded(rows) ==
    [i \in 1..Len(rows) |->
        [category |-> rows[i].category, belt_class |-> rows[i].belt_class,
         transition |-> rows[i].transition, sum |-> rows[i].sum,
         from_lc |-> rows[i].transition \div 100,
         to_lc |-> rows[i].transition % 100]]

\* variant: the rows of every category
OfCategoryOrNot(rows, category) == rows
\* df[df.category == category]
OfCategory(rows, category) ==
    Filter(rows, {r \in Range(rows) : r.category = category})

\* the dataframe of one result: parse_result without single, the decoding of
\* its column transition, which a dataframe without rows does not have, and
\* the rows of the category
ParsedResult(value, category) ==
    LET r == parse_result(value, FALSE)
    IN  IF r.err # "none" THEN [err |-> r.err, returned |-> "", rows |-> <<>>]
        ELSE IF r.rows = <<>> THEN [err |-> "AttributeError", returned |-> "", rows |-> <<>>]
        ELSE [err |-> "none", returned |-> "DataFrame",
              rows |-> OfCategory(Decoded(r.rows), category)]

\* the results of more than one year, in the order of the dict
SeveralYears(items) == Filter(items, {it \in Range(items) : Len(it.key) > 1})

\* str(year) in key
ReportMatches(y, key) == Substring(Str(y), JoinUnderscore(key))

\* parse_to_year(results, target_year)
parse_to_year(items, target) ==
    IF target.selector = "baseline" /\ SeveralYears(items) # <<>>
    THEN ParsedResult(SeveralYears(items)[1].value, "baseline_transition")
    ELSE IF target.selector = "baseline"
    THEN [err |-> "TypeError", returned |-> "", rows |-> <<>>]
    ELSE LET matching == Filter(SeveralYears(items),
                                {it \in Range(items) : ReportMatches(target.years[2], it.key)})
         IN  IF matching = <<>> THEN [err |-> "none", returned |-> "None", rows |-> <<>>]
             ELSE ParsedResult(matching[1].value, "report_transition")

(***************************************************************************)
(* SpecToYearB: parse_to_year on results and selectors                     *)
(***************************************************************************)
\* a belt of a double level result with one transition
OneTransition(code, s) == <<Group(1, <<Leaf(code, s)>>)>>

\* the double level results of a request: empty, one category, or both
ResultValues ==
    {<<>>,
     <<[category |-> "baseline_transition", groups |-> OneTransition(102, 10)]>>,
     <<[category |-> "baseline_transition", groups |-> OneTransition(102, 10)],
       [category |-> "report_transition", groups |-> OneTransition(201, 20)]>>,
     <<[category |-> "report_transition", groups |-> OneTransition(102, 20)],
       [category |-> "baseline_transition", groups |-> OneTransition(201, 10)]>>}

\* the labels: one year, and the baseline (2000, 2015) with a report year
SeveralYearKeys == {<<Str(2000), Str(2015), Str(e)>> : e \in {2015, 2018, 2019}}
ResultKeys == {<<Str(2015)>>} \cup SeveralYearKeys

\* the results: items of different keys
ResultsB ==
    {r \in UNION {[1..n -> [key : ResultKeys, value : ResultValues]] : n \in 0..MaxResults} :
        /\ \A i, j \in 1..Len(r) : i # j => r[i].key # r[j].key
        /\ \A i \in 1..Len(r) : Len(r[i].key) = 1 => r[i].value = <<>>}

\* the selectors get_sub_b_items gives for that baseline
TargetYears ==
    {[selector |-> "baseline", years |-> <<2000, 2015>>]}
    \cup {[selector |-> "report", years |-> <<2015, e>>] : e \in {2015, 2018, 2019}}

InitToYearB ==
    /\ pc = "start"
    /\ err = "none"
    /\ PlanIdle
    /\ CustomListIdle
    /\ kind = "int"
    /\ DedupIdle
    /\ SubBIdle
    /\ ParseIdle
    /\ ToYearAIdle
    /\ results_b \in ResultsB
    /\ target_year \in TargetYears
    /\ returned_b = ""
    /\ df_b = <<>>

\* df_b = parse_to_year(results_b, target_year)
ParseToYear ==
    /\ pc = "start"
    /\ LET r == parse_to_year(results_b, target_year)
       IN  /\ err' = r.err
           /\ returned_b' = r.returned
           /\ df_b' = r.rows
    /\ pc' = "returned"
    /\ UNCHANGED <<vars_plan, vars_beside_to_year_b, results_b, target_year>>

NextToYearB == ParseToYear

SpecToYearB == InitToYearB /\ [][NextToYearB]_vars

(***************************************************************************)
(* CustomList: add_element, remove_element, update_model                   *)
(***************************************************************************)
InitCustomList ==
    /\ pc = "start"
    /\ err = "none"
    /\ PlanIdle
    /\ kind = "int"
    /\ NotPlanIdle

\* the click on add_btn
AddElement ==
    /\ counter <= max_
    /\ counter' = counter + 1
    /\ children' = Append(children, get_element(counter', FALSE))
    /\ UNCHANGED <<pc, err, vars_plan, vars_beside_custom_list, v_model>>

\* the click on the sub_btn of a row of the list: the id_ is the one
\* get_element bound when it made the row
RemoveElement ==
    /\ \E k \in 1..Len(children) :
          /\ ~children[k].single
          /\ LET id_ == children[k].id
             IN  /\ children' = SelectSeq(children, LAMBDA chld : chld.id # id_)
                 /\ v_model' = {e \in v_model : e[1] # id_}
    /\ counter' = counter - 1
    /\ UNCHANGED <<pc, err, vars_plan, vars_beside_custom_list>>

\* a selection in the base or the report select of a row of the list
UpdateModel ==
    /\ \E k \in 1..Len(children), pos \in {"base", "report"} :
          v_model' = v_model \cup {<<children[k].id, pos>>}
    /\ UNCHANGED <<pc, err, vars_plan, vars_beside_custom_list, children, counter>>

NextCustomList == AddElement \/ RemoveElement \/ UpdateModel

SpecCustomList == InitCustomList /\ [][NextCustomList]_vars

(***************************************************************************)
(* Properties of get_sub_a_break_points (checked under Spec)               *)
(***************************************************************************)
Resolved == pc \in {"resolved", "extracted"}

\* the years of the assets of the user input
AvailableYears == {user_input_years[i].year : i \in 1..Len(user_input_years)}

\* the keys of a dict
Keys(d) == {d[i].period : i \in 1..Len(d)}

\* C1: for a non-empty input the call returns, and the keys of the returned
\* dict are exactly the report intervals that lie between the least and the
\* greatest available year; a report interval below the least or above the
\* greatest available year is no key
C1_KeysAreThePeriodsInRange ==
    (Resolved /\ user_input_years # <<>>) =>
        /\ pc = "resolved" => err = "none"
        /\ Keys(break_points) =
              {p \in Range(REPORT_INTERVALS) :
                  /\ \E y \in AvailableYears : y <= p
                  /\ \E y \in AvailableYears : p <= y}
        /\ Len(break_points) = Cardinality(Keys(break_points))

\* a run with a report interval on each side of the available range and a
\* key between them
C1_Witness ==
    /\ pc = "resolved"
    /\ user_input_years # <<>>
    /\ \E p \in Range(REPORT_INTERVALS) : \A y \in AvailableYears : p < y
    /\ \E p \in Range(REPORT_INTERVALS) : \A y \in AvailableYears : p > y
    /\ break_points # <<>>

\* C2: the break point of a key that is no available year is the pair
\* [below, above]: below an input dictionary with the greatest available
\* year under the key, above one with the least available year over it;
\* years {2009, 2011, 2015} with report intervals [2010, 2015] give
\* 2010 -> [2009, 2011]
C2_BracketIsNearestBelowAndAbove ==
    Resolved =>
        /\ \A i \in 1..Len(break_points) :
              LET p  == break_points[i].period
                  bp == break_points[i].year
              IN  p \notin AvailableYears =>
                    /\ ~break_points[i].isnull
                    /\ Len(bp) = 2
                    /\ bp[1] \in Range(user_input_years)
                    /\ bp[2] \in Range(user_input_years)
                    /\ bp[1].year < p /\ p < bp[2].year
                    /\ \A y \in AvailableYears :
                          y < p => y <= bp[1].year
                    /\ \A y \in AvailableYears :
                          y > p => y >= bp[2].year
        /\ (AvailableYears = {2009, 2011, 2015} /\ REPORT_INTERVALS = <<2010, 2015>>) =>
              /\ Len(break_points) = 2
              /\ break_points[1].period = 2010
              /\ YearsOf(break_points[1].year) = <<2009, 2011>>

\* the scenario of the claim, with an available year between the bracket
\* and the far end of the range
C2_Witness ==
    /\ pc = "resolved"
    /\ AvailableYears = {2009, 2011, 2015}
    /\ REPORT_INTERVALS = <<2010, 2015>>
    /\ YearsOf(break_points[1].year) = <<2009, 2011>>

\* C3: every report interval strictly between the least and the greatest
\* available year has a break point that is not None, and no key of the
\* returned dict is mapped to None
C3_NoKeyIsNull ==
    Resolved =>
        /\ \A p \in Range(REPORT_INTERVALS) :
              ((\E y \in AvailableYears : y < p) /\ (\E y \in AvailableYears : p < y)) =>
                  \E i \in 1..Len(break_points) :
                      /\ break_points[i].period = p
                      /\ ~break_points[i].isnull
                      /\ break_points[i].year # <<>>
        /\ \A i \in 1..Len(break_points) : ~break_points[i].isnull

\* a run whose input is not in ascending order and that has a report
\* interval strictly inside the available range
C3_Witness ==
    /\ pc = "resolved"
    /\ Len(user_input_years) >= 2
    /\ user_input_years[1].year > user_input_years[2].year
    /\ \E i \in 1..Len(break_points) :
          /\ break_points[i].period \notin AvailableYears
          /\ break_points[i].period < user_input_years[1].year

\* C4: the break point of a key that is an available year holds exactly the
\* input dictionaries of that year: each of them once per occurrence in the
\* input, and none of another year
C4_ExactMatchKeepsAllAssetsOfTheYear ==
    Resolved =>
        \A i \in 1..Len(break_points) :
            LET p  == break_points[i].period
                bp == break_points[i].year
            IN  p \in AvailableYears =>
                  /\ ~break_points[i].isnull
                  /\ \A j \in 1..Len(bp) : bp[j].year = p
                  /\ \A y \in YearSpec :
                        Cardinality({j \in 1..Len(bp) : bp[j] = y}) =
                            IF y.year = p
                            THEN Cardinality({j \in 1..Len(user_input_years) :
                                                 user_input_years[j] = y})
                            ELSE 0

\* a key whose year is shared by two assets, next to an asset of another year
C4_Witness ==
    /\ pc = "resolved"
    /\ \E i \in 1..Len(break_points) :
          /\ Len(break_points[i].year) = 2
          /\ break_points[i].year[1].year = break_points[i].period
          /\ break_points[i].year[1].asset # break_points[i].year[2].asset
    /\ Cardinality(AvailableYears) >= 2

\* C5 as stated: a break point that is not None has length 1 or 2; with
\* length 2 its first year < key < its second year, with length 1 its year
\* is the key
C5_Original ==
    Resolved =>
        \A i \in 1..Len(break_points) :
            LET p  == break_points[i].period
                bp == break_points[i].year
            IN  ~break_points[i].isnull =>
                  /\ Len(bp) \in {1, 2}
                  /\ Len(bp) = 2 => (bp[1].year < p /\ p < bp[2].year)
                  /\ Len(bp) = 1 => bp[1].year = p

\* C5 amended: a break point that is not None is either the non-empty list
\* of the input dictionaries whose year is the key (of length 1 when one
\* input dictionary has that year), or, when no available year is the key,
\* a list of length 2 with first year < key < second year
C5_BreakPointShape ==
    Resolved =>
        \A i \in 1..Len(break_points) :
            LET p  == break_points[i].period
                bp == break_points[i].year
                n  == Cardinality({j \in 1..Len(user_input_years) :
                                      user_input_years[j].year = p})
            IN  ~break_points[i].isnull =>
                  IF n > 0
                  THEN /\ Len(bp) = n
                       /\ \A j \in 1..Len(bp) : bp[j].year = p
                  ELSE /\ Len(bp) = 2
                       /\ bp[1].year < p /\ p < bp[2].year

\* a dict with a break point of several dictionaries of the key's year and
\* a break point that is a bracketing pair
C5_Witness ==
    /\ pc = "resolved"
    /\ \E i \in 1..Len(break_points) :
          /\ Len(break_points[i].year) >= 2
          /\ \A j \in 1..Len(break_points[i].year) :
                break_points[i].year[j].year = break_points[i].period
    /\ \E i \in 1..Len(break_points) :
          /\ Len(break_points[i].year) = 2
          /\ break_points[i].year[1].year < break_points[i].period

GroupSets(groups) == {Range(groups[i]) : i \in 1..Len(groups)}

\* C7 (checked under Spec): on every dict get_sub_a_break_points returns,
\* get_interpolation_years raises nothing and returns groups of one or two
\* year dictionaries
C7_ExtractionAcceptsResolverOutput ==
    pc = "extracted" =>
        /\ err = "none"
        /\ \A i \in 1..Len(years_to_calculate) :
              Len(years_to_calculate[i]) \in {1, 2}

\* C8 (checked under SpecExtract): a list of three under label L gives
\* [first] and [second, third] when the first year is L, [first, second] and
\* [third] when instead the last year is L, and the invalid-period error
\* (ValueError) when neither is; no other exception, for int and for str
C8_ThreeYearsSplitAtTheLabel ==
    (pc = "extracted" /\ Len(breaking_points) = 1
       /\ Len(breaking_points[1].year) = 3) =>
        LET L    == breaking_points[1].period
            year == breaking_points[1].year
        IN  IF year[1].year = L
            THEN /\ err = "none"
                 /\ GroupSets(years_to_calculate) = {{year[1]}, {year[2], year[3]}}
            ELSE IF year[3].year = L
            THEN /\ err = "none"
                 /\ GroupSets(years_to_calculate) = {{year[1], year[2]}, {year[3]}}
            ELSE err = "ValueError"

\* C9 (checked under SpecExtract): a list of four [a, b, c, d] gives the two
\* groups [a, b] and [c, d], and no group of more than two
C9_FourYearsGiveTwoPairs ==
    (pc = "extracted" /\ Len(breaking_points) = 1
       /\ Len(breaking_points[1].year) = 4) =>
        LET year == breaking_points[1].year
        IN  /\ err = "none"
            /\ GroupSets(years_to_calculate) = {{year[1], year[2]}, {year[3], year[4]}}
            /\ \A i \in 1..Len(years_to_calculate) : Len(years_to_calculate[i]) <= 2

\* C10 (checked under SpecExtract): the list returned for the items in
\* another order is the list returned for the items in the given order
C10_OutputIndependentOfInputOrder ==
    (pc = "shuffled" /\ err = "none" /\ err_shuffled = "none") =>
        years_shuffled = years_to_calculate

(***************************************************************************)
(* Properties of remove_duplicated_years (checked under SpecDedup)         *)
(***************************************************************************)
\* C11: no two groups of the returned list hold the same set of year
\* dictionaries; every set of year dictionaries that some input list holds
\* is the set of exactly one returned group, whatever the order of the
\* members in the input lists; and the members of each returned group are
\* in ascending order of year
C11_OneSortedGroupPerDistinctSet ==
    pc = "deduped" =>
        /\ \A i \in 1..Len(deduped) : \A j \in 1..Len(deduped) :
              Range(deduped[i]) = Range(deduped[j]) => i = j
        /\ {Range(deduped[i]) : i \in 1..Len(deduped)} =
              {Range(year_lists[i]) : i \in 1..Len(year_lists)}
        /\ \A i \in 1..Len(deduped) :
              /\ Len(deduped[i]) = Cardinality(Range(deduped[i]))
              /\ \A m \in 1..(Len(deduped[i]) - 1) :
                    deduped[i][m].year <= deduped[i][m + 1].year

\* two input lists with the same members in opposite orders, the first of
\* them in descending order of year: one group, in ascending order
C11_Witness ==
    /\ pc = "deduped"
    /\ Len(year_lists) = 2
    /\ Len(year_lists[1]) = 2
    /\ year_lists[1][1].year > year_lists[1][2].year
    /\ year_lists[2] = <<year_lists[1][2], year_lists[1][1]>>
    /\ deduped = <<year_lists[2]>>

(***************************************************************************)
(* Properties of the year planning of sub indicator B (SpecSubB)           *)
(***************************************************************************)
\* the places of sub_b_years that are not the baseline, in ascending order
ExtraPlaces == Ascending({i \in 1..Len(sub_b_years) : sub_b_years[i].type # "baseline"})

\* the baseline of sub_b_years
TheBaseline ==
    sub_b_years[CHOOSE i \in 1..Len(sub_b_years) : sub_b_years[i].type = "baseline"].value

\* C12: get_b_years returns one request per item that is not the baseline,
\* in the order of the dict, each (baseline base, baseline report, year
\* dictionary of the item), repeated years included; the baseline
\* (2000, 2015) with the report years 2018, 2019 gives (2000, 2015, 2018) and
\* (2000, 2015, 2019)
C12_OneRequestPerExtraReport ==
    pc \in {"assembled", "listed"} =>
        /\ Len(b_years) = Len(ExtraPlaces)
        /\ Len(b_years) = Len(sub_b_years) - 1
        /\ \A i \in 1..Len(b_years) :
              b_years[i] = <<TheBaseline[1], TheBaseline[2],
                             sub_b_years[ExtraPlaces[i]].value[1]>>
        /\ (/\ YearsOf(TheBaseline) = <<2000, 2015>>
            /\ [i \in 1..Len(ExtraPlaces) |->
                   sub_b_years[ExtraPlaces[i]].value[1].year] = <<2018, 2019>>) =>
              [i \in 1..Len(b_years) |-> YearsOf(b_years[i])] =
                  <<<<2000, 2015, 2018>>, <<2000, 2015, 2019>>>>

\* two report years that are the same year dictionary, after the baseline
\* (2000, 2015): two equal requests
C12_Witness ==
    /\ pc = "assembled"
    /\ Len(b_years) = 2
    /\ b_years[1] = b_years[2]
    /\ YearsOf(TheBaseline) = <<2000, 2015>>
    /\ b_years[1][3].year = 2018

\* C13: every request get_b_years returns has two or three elements, in
\* strictly ascending order of year
C13_RequestYearsIncrease ==
    pc \in {"assembled", "listed"} =>
        \A i \in 1..Len(b_years) :
            /\ Len(b_years[i]) \in {2, 3}
            /\ \A j \in 1..(Len(b_years[i]) - 1) :
                  b_years[i][j].year < b_years[i][j + 1].year

\* C14: for the baseline (b, r) and the report years e1..en,
\* get_sub_b_items returns n + 1 items and n + 1 values; value 0 is the
\* baseline selector of (b, r) and value i the report selector of (r, ei),
\* in the order of the dict; item i holds value i, and its text is the
\* years of value i as decimal numbers with " -> " between them
C14_ItemsAlignedWithValues ==
    pc = "listed" =>
        /\ Len(sub_b_items) = Len(ExtraPlaces) + 1
        /\ Len(sub_b_values) = Len(ExtraPlaces) + 1
        /\ sub_b_values[1] =
              [selector |-> "baseline",
               years |-> <<TheBaseline[1].year, TheBaseline[2].year>>]
        /\ \A i \in 1..Len(ExtraPlaces) :
              sub_b_values[i + 1] =
                  [selector |-> "report",
                   years |-> <<TheBaseline[2].year,
                               sub_b_years[ExtraPlaces[i]].value[1].year>>]
        /\ \A i \in 1..Len(sub_b_items) :
              /\ sub_b_items[i].value = sub_b_values[i]
              /\ sub_b_items[i].text =
                    Str(sub_b_values[i].years[1]) \o <<32, 45, 62, 32>> \o
                    Str(sub_b_values[i].years[2])

\* the baseline (2000, 2015) given after the report years 2019, 2018: the
\* second item reads "2015 -> 2019"
C14_Witness ==
    /\ pc = "listed"
    /\ Len(sub_b_items) = 3
    /\ sub_b_years[3].type = "baseline"
    /\ sub_b_values[1].years = <<2000, 2015>>
    /\ sub_b_values[2].years = <<2015, 2019>>
    /\ sub_b_values[3].years = <<2015, 2018>>
    /\ sub_b_items[2].text = <<2, 0, 1, 5, 32, 45, 62, 32, 2, 0, 1, 9>>

(***************************************************************************)
(* Properties of parse_result (SpecParse, SpecParseDamaged)                *)
(***************************************************************************)
\* the number of innermost dictionaries of the first n belts
RECURSIVE LeavesOfBelts(_, _)
LeavesOfBelts(belts, n) ==
    IF n = 0 THEN 0 ELSE LeavesOfBelts(belts, n - 1) + Len(belts[n].groups)

\* the number of innermost dictionaries of the first n categories
RECURSIVE LeavesOfItems(_, _)
LeavesOfItems(items, n) ==
    IF n = 0 THEN 0
    ELSE LeavesOfItems(items, n - 1) + LeavesOfBelts(items[n].groups, Len(items[n].groups))

\* C15: parse_result returns one row per innermost group, in the order of
\* the input, with the sum of that group: with single, class c of belt b is
\* the row (belt, class, sum) that follows the rows of the belts before b
\* and of the classes before c (two belts of two classes give four rows);
\* without single, transition c of belt b of category k is the row
\* (category, belt, transition, sum) at the corresponding place
C15_OneRowPerLeafInOrder ==
    pc = "parsed" =>
        /\ err = "none"
        /\ single =>
              /\ Len(df) = LeavesOfBelts(result, Len(result))
              /\ \A b \in 1..Len(result) : \A c \in 1..Len(result[b].groups) :
                    df[LeavesOfBelts(result, b - 1) + c] =
                        [belt_class |-> result[b].group,
                         lc_class |-> result[b].groups[c].group,
                         sum |-> result[b].groups[c].sum]
              /\ (Len(result) = 2 /\ \A b \in 1..2 : Len(result[b].groups) = 2) =>
                    Len(df) = 4
        /\ ~single =>
              /\ Len(df) = LeavesOfItems(result, Len(result))
              /\ \A k \in 1..Len(result) : \A b \in 1..Len(result[k].groups) :
                    \A c \in 1..Len(result[k].groups[b].groups) :
                        df[LeavesOfItems(result, k - 1)
                           + LeavesOfBelts(result[k].groups, b - 1) + c] =
                            [category |-> result[k].category,
                             belt_class |-> result[k].groups[b].group,
                             transition |-> result[k].groups[b].groups[c].group,
                             sum |-> result[k].groups[b].groups[c].sum]

\* the belts 1 and 2 with the classes 1 and 2 each, of different sums: four
\* rows, the third of them the first class of the second belt
C15_Witness ==
    /\ pc = "parsed"
    /\ single
    /\ Len(result) = 2
    /\ \A b \in 1..2 : result[b].group = b /\ Len(result[b].groups) = 2
    /\ result[2].groups[1].sum # result[2].groups[2].sum
    /\ Len(df) = 4
    /\ df[3] = [belt_class |-> 2, lc_class |-> 1, sum |-> result[2].groups[1].sum]

\* C16: parse_result raises an error for every result of which a dictionary,
\* at any level, lacks its group, groups or sum key, with and without
\* single; it returns no dataframe for such a result
C16_MissingKeyRaises ==
    pc = "parsed" => err = "KeyError"

(***************************************************************************)
(* Properties of parse_to_year_a (SpecToYearA)                             *)
(***************************************************************************)
\* the places of results_a whose label is the single year year_a
ExactEntries == {i \in 1..Len(results_a) : results_a[i].key = <<Str(year_a)>>}

\* the places of reporting_years_a whose period is year_a
BreakEntries == {i \in 1..Len(reporting_years_a) : reporting_years_a[i].period = year_a}

\* C17: when a single year label of the results is the asked year,
\* parse_to_year_a returns the single level parse of that entry, whatever
\* the break points are; when none is, the entry of the asked year is not
\* looked up in the results (a lookup that would raise KeyError), even if
\* a single year label holds the digits of the asked year
C17_DirectEntryOnlyForExactLabel ==
    pc = "returned" =>
        /\ \A i \in ExactEntries :
              /\ err = "none"
              /\ df_a = WithFractions(SingleRows(results_a[i].groups))
        /\ ExactEntries = {} => err # "KeyError"

\* C18: when no single year label of the results is the asked year and the
\* break points hold no pair for it (no entry, None, or one year
\* dictionary), parse_to_year_a raises AssertionError
C18_NoBracketIsAssertionError ==
    (/\ pc = "returned"
     /\ ExactEntries = {}
     /\ \A i \in BreakEntries :
           reporting_years_a[i].isnull \/ Len(reporting_years_a[i].year) = 1)
        => err = "AssertionError"

(***************************************************************************)
(* Properties of parse_to_year (SpecToYearB)                               *)
(***************************************************************************)
\* the rows (category, belt, transition, sum) a double level result holds
RowsOfValue(value) ==
    {[category |-> value[k].category, belt_class |-> value[k].groups[b].group,
      transition |-> value[k].groups[b].groups[c].group,
      sum |-> value[k].groups[b].groups[c].sum] :
        <<k, b, c>> \in {x \in (1..Len(value)) \X (1..MaxBeltsDouble) \X (1..MaxTransitions) :
                            /\ x[2] <= Len(value[x[1]].groups)
                            /\ x[3] <= Len(value[x[1]].groups[x[2]].groups)}}

\* a row without its columns from_lc and to_lc
Undecoded(row) ==
    [category |-> row.category, belt_class |-> row.belt_class,
     transition |-> row.transition, sum |-> row.sum]

\* C19: every row parse_to_year returns is a row of one of the results, has
\* from_lc = transition // 100 and to_lc = transition % 100 (so that
\* transition = 100 * from_lc + to_lc: 102 is from 1 to 2), and has the
\* category "baseline_transition" for a baseline selector and
\* "report_transition" for a report selector
C19_RowsDecodedAndOfTheCategory ==
    pc = "returned" =>
        \A i \in 1..Len(df_b) :
            /\ \E j \in 1..Len(results_b) :
                  Undecoded(df_b[i]) \in RowsOfValue(results_b[j].value)
            /\ df_b[i].from_lc = df_b[i].transition \div 100
            /\ df_b[i].to_lc = df_b[i].transition % 100
            /\ df_b[i].transition = 100 * df_b[i].from_lc + df_b[i].to_lc
            /\ df_b[i].transition = 102 => df_b[i].from_lc = 1 /\ df_b[i].to_lc = 2
            /\ df_b[i].category = IF target_year.selector = "baseline"
                                  THEN "baseline_transition" ELSE "report_transition"

\* a report selector on a result of both categories: the one row returned
\* is the report transition 201, from 2 to 1
C19_Witness ==
    /\ pc = "returned"
    /\ target_year.selector = "report"
    /\ Len(results_b) = 1
    /\ Len(results_b[1].value) = 2
    /\ returned_b = "DataFrame"
    /\ Len(df_b) = 1
    /\ df_b[1].category = "report_transition"
    /\ df_b[1].transition = 201
    /\ df_b[1].from_lc = 2
    /\ df_b[1].to_lc = 1

\* C20: with a report selector (r, e), whatever parse_to_year returns was
\* parsed from a result of several years whose label ends with the year e:
\* there is such a result, and every row returned is one of its rows
C20_ReportRowsComeFromTheLabelOfTheYear ==
    (pc = "returned" /\ target_year.selector = "report" /\ returned_b = "DataFrame") =>
        \E j \in 1..Len(results_b) :
            /\ Len(results_b[j].key) > 1
            /\ results_b[j].key[Len(results_b[j].key)] = Str(target_year.years[2])
            /\ \A i \in 1..Len(df_b) :
                  Undecoded(df_b[i]) \in RowsOfValue(results_b[j].value)

\* the places of results_b whose label matches target_year: a label of
\* several years for a baseline selector, a label of several years that
\* ends with the report year for a report selector
MatchingLabels ==
    {j \in 1..Len(results_b) :
        /\ Len(results_b[j].key) > 1
        /\ target_year.selector = "report" =>
              results_b[j].key[Len(results_b[j].key)] = Str(target_year.years[2])}

\* C21: when no label of the results matches the selector, parse_to_year
\* returns None and raises nothing, for a baseline selector and for a
\* report selector (the results are empty, or hold labels of one year only)
C21_NoMatchReturnsNone ==
    (pc = "returned" /\ MatchingLabels = {}) =>
        err = "none" /\ returned_b = "None"

(***************************************************************************)
(* Properties of interpolate_sub_a_data (SpecInterpolate)                  *)
(***************************************************************************)
\* the rows parse_result gives for the single year label y of results_a,
\* <<>> if there is none
RowsOfYear(y) ==
    IF \E i \in 1..Len(results_a) : results_a[i].key = <<Str(y)>>
    THEN SingleRows(results_a[CHOOSE i \in 1..Len(results_a) :
                                  results_a[i].key = <<Str(y)>>].groups)
    ELSE <<>>

\* the (belt_class, lc_class) keys of rows
KeysOf(rows) == {<<rows[i].belt_class, rows[i].lc_class>> : i \in 1..Len(rows)}

\* both years have a single year label in results_a
BothYearsHeld ==
    \A y \in {year1_a, year2_a} : \E i \in 1..Len(results_a) : results_a[i].key = <<Str(y)>>

\* C22: unless year1 < target < year2, interpolate_sub_a_data raises an
\* error without calling parse_to_year_a for either year, so before any
\* result is read: for target = year1, target = year2 and year1 >= year2
C22_InvalidRangeRaisesFirst ==
    (pc = "interpolated" /\ ~(year1_a < year_a /\ year_a < year2_a)) =>
        err = "Exception" /\ asked_a = <<>> /\ df_a = <<>>

\* the target year is year1, and the results hold both years
C22_Witness ==
    /\ pc = "interpolated"
    /\ year1_a < year2_a
    /\ year_a = year1_a
    /\ BothYearsHeld
    /\ err = "Exception"
    /\ asked_a = <<>>

\* C23: when the results of year1 and year2 differ in their
\* (belt_class, lc_class) keys, interpolate_sub_a_data raises an error; when
\* it returns, the rows it returns are one for each key of the result of
\* year1, which are the keys of the result of year2
C23_KeySetsMustAgree ==
    (pc = "interpolated" /\ BothYearsHeld /\ year1_a < year_a /\ year_a < year2_a) =>
        /\ KeysOf(RowsOfYear(year1_a)) # KeysOf(RowsOfYear(year2_a)) => err # "none"
        /\ err = "none" =>
              /\ KeysOf(df_a) = KeysOf(RowsOfYear(year1_a))
              /\ KeysOf(df_a) = KeysOf(RowsOfYear(year2_a))
              /\ Len(df_a) = Cardinality(KeysOf(df_a))

\* C24: for year1 < target < year2, the row of each key that the results of
\* year1 and year2 share has the sum v1 + (v2 - v1) * (target - year1) /
\* (year2 - year1), v1 and v2 being the sums of that key in the two results;
\* the sums 10 and 20 of 2009 and 2011 give 15 for 2010
C24_LinearInterpolationPerKey ==
    (pc = "interpolated" /\ err = "none") =>
        LET df1 == RowsOfYear(year1_a)
            df2 == RowsOfYear(year2_a)
        IN  \A i \in 1..Len(df1) : \A j \in 1..Len(df2) :
                KeysOf(<<df1[i]>>) = KeysOf(<<df2[j]>>) =>
                    \E k \in 1..Len(df_a) :
                        /\ KeysOf(<<df_a[k]>>) = KeysOf(<<df1[i]>>)
                        /\ df_a[k].sum[1] * (year2_a - year1_a) =
                              df_a[k].sum[2]
                              * (df1[i].sum * (year2_a - year1_a)
                                 + (df2[j].sum - df1[i].sum) * (year_a - year1_a))
                        /\ (/\ year1_a = 2009 /\ year2_a = 2011 /\ year_a = 2010
                            /\ df1[i].sum = 10 /\ df2[j].sum = 20) =>
                              df_a[k].sum = <<15, 1>>

\* 2010 between 2009 and 2015 with two keys whose sums are 10, 20 in 2009
\* and 20, 10 in 2015: 35/3 for the first key and 55/3 for the second
C24_Witness ==
    /\ pc = "interpolated"
    /\ err = "none"
    /\ year1_a = 2009 /\ year2_a = 2015 /\ year_a = 2010
    /\ [i \in 1..Len(RowsOfYear(2009)) |-> RowsOfYear(2009)[i].sum] = <<10, 20>>
    /\ [i \in 1..Len(RowsOfYear(2015)) |-> RowsOfYear(2015)[i].sum] = <<20, 10>>
    /\ [i \in 1..Len(df_a) |-> df_a[i].sum] = <<<<35, 3>>, <<55, 3>>>>

(***************************************************************************)
(* Properties of parse_to_year_a on the resolver's output (SpecServe)      *)
(***************************************************************************)
\* C25: on the break points get_sub_a_break_points returns and results that
\* hold a single year label for every year of the user, parse_to_year_a
\* returns for every key of the break points, with at most one call of
\* interpolate_sub_a_data: the two years of an interpolated period are
\* years of the user, found in the results and not interpolated again
C25_AtMostOneInterpolationDeep ==
    pc = "served" =>
        /\ err = "none"
        /\ deep_a <= 1
        /\ asked_a[1] = year_a
        /\ Len(asked_a) \in {1, 3}
        /\ \A k \in 2..Len(asked_a) :
              /\ asked_a[k] \in Range(UserYears(user_input_years))
              /\ \E i \in 1..Len(results_a) : results_a[i].key = <<Str(asked_a[k])>>
        /\ deep_a = 0 <=> Len(asked_a) = 1

\* the period 2010 between the user years 2009 and 2015, next to a period
\* that is itself a user year
C25_Witness ==
    /\ pc = "served"
    /\ year_a = 2010
    /\ Len(break_points) >= 2
    /\ deep_a = 1
    /\ asked_a = <<2010, 2009, 2015>>
    /\ Len(df_a) = 1
    /\ df_a[1].sum = <<10, 1>>

(***************************************************************************)
(* Properties of CustomList (SpecCustomList)                               *)
(***************************************************************************)
\* C26: after any add_element and remove_element, the ids of the rows of the
\* list are pairwise distinct and counter is the number of rows
C26_IdsDistinctAndCounted ==
    /\ \A i, j \in 1..Len(children) : i # j => children[i].id # children[j].id
    /\ counter = Len(children)

====
